---- MODULE Spec2Model ----
(***************************************************************************)
(* Model of fmu.dataio._utils: the private helpers of the DataIO export    *)
(* class (construct_filename, verify_path, drop_nones,                     *)
(* export_metadata_file, uuid_from_string, read_parameters_txt,            *)
(* check_if_number).                                                       *)
(*                                                                         *)
(* Python strings are sequences of one-character strings; Python's None is *)
(* the sentinel None, which is no string of the model's alphabets.         *)
(***************************************************************************)
EXTENDS Integers, Sequences, FiniteSets, TLC

VARIABLES
    loggerLevel,  \* logger.level of the module logger (numeric, 0 = NOTSET)
    dirs,         \* the directories that exist (absolute, normalised part lists)
    files,        \* the files the helpers read and write
    call,         \* the call being made / made last (operation and arguments)
    result,       \* what that call returned or raised
    memo          \* an earlier call, what it met and what it gave (history)

vars == <<loggerLevel, dirs, files, call, result, memo>>

(***************************************************************************)
(* Bounds of the model.                                                    *)
(***************************************************************************)
MaxNameLen == 2

(***************************************************************************)
(* Strings.                                                                *)
(***************************************************************************)
None == <<"None">>

\* Python truthiness of an optional string: None and "" are falsy.
Truthy(x) == x # None /\ x # <<>>

RECURSIVE StrUpTo(_, _)
StrUpTo(alphabet, n) ==
    IF n = 0 THEN {<<>>}
    ELSE LET shorter == StrUpTo(alphabet, n - 1)
         IN  shorter \cup {Append(s, c) : s \in shorter, c \in alphabet}

\* str.lower() on the characters of the model's alphabets.
LowerChar(c) ==
    CASE c = "B" -> "b"
      [] c = "D" -> "d"
      [] c = "P" -> "p"
      [] c = "T" -> "t"
      [] c = "V" -> "v"
      [] OTHER -> c

UpperChars == {"B", "D", "P", "T", "V"}

Lower(s) == [i \in 1..Len(s) |-> LowerChar(s[i])]

StartsWith(s, p) == Len(s) >= Len(p) /\ SubSeq(s, 1, Len(p)) = p

Drop(s, n) == SubSeq(s, n + 1, Len(s))

\* str.replace(old, new): non-overlapping occurrences, scanned left to right.
RECURSIVE Replace(_, _, _)
Replace(s, old, new) ==
    IF s = <<>> THEN <<>>
    ELSE IF StartsWith(s, old) THEN new \o Replace(Drop(s, Len(old)), old, new)
    ELSE <<Head(s)>> \o Replace(Tail(s), old, new)

\* str.split(sep) for a one-character separator: the list of fields.
RECURSIVE SplitOn(_, _)
SplitOn(s, sep) ==
    IF \A i \in 1..Len(s) : s[i] # sep THEN <<s>>
    ELSE LET i == CHOOSE j \in 1..Len(s) :
                      s[j] = sep /\ \A m \in 1..(j - 1) : s[m] # sep
         IN  <<SubSeq(s, 1, i - 1)>> \o SplitOn(Drop(s, i), sep)

\* sep.join(list)
RECURSIVE JoinWith(_, _)
JoinWith(list, sep) ==
    IF list = <<>> THEN <<>>
    ELSE IF Len(list) = 1 THEN list[1]
    ELSE list[1] \o sep \o JoinWith(Tail(list), sep)

(***************************************************************************)
(* pathlib.Path, as far as the helpers use it: a path is whether it is     *)
(* absolute and its list of parts.                                         *)
(***************************************************************************)
RECURSIVE DropEmptyAndDot(_)
DropEmptyAndDot(parts) ==
    IF parts = <<>> THEN <<>>
    ELSE IF Head(parts) = <<>> \/ Head(parts) = <<".">>
         THEN DropEmptyAndDot(Tail(parts))
    ELSE <<Head(parts)>> \o DropEmptyAndDot(Tail(parts))

\* Path(s): empty parts and "." parts are dropped, so is a trailing slash.
PathOf(s) ==
    [abs |-> StartsWith(s, <<"/">>), parts |-> DropEmptyAndDot(SplitOn(s, "/"))]

\* path / s : an absolute right operand replaces the left one.
PathDiv(p, s) ==
    LET q == PathOf(s)
    IN  IF q.abs THEN q ELSE [abs |-> p.abs, parts |-> p.parts \o q.parts]

\* str(path)
PathStr(p) ==
    IF p.abs THEN <<"/">> \o JoinWith(p.parts, <<"/">>)
    ELSE IF p.parts = <<>> THEN <<".">>
    ELSE JoinWith(p.parts, <<"/">>)

(***************************************************************************)
(* logging: Logger.setLevel(level) stores the numeric value of the level.  *)
(***************************************************************************)
Verbosities == {"DEBUG", "INFO", "WARNING"}

LevelOf(verbosity) ==
    CASE verbosity = "DEBUG" -> 10
      [] verbosity = "INFO" -> 20
      [] verbosity = "WARNING" -> 30

(***************************************************************************)
(* construct_filename                                                      *)
(***************************************************************************)
\* Lines 73-85: the stem before it is sanitized.
StemParts(name, pretagname, tagname, t1, t2) ==
    LET s0 == Lower(name)
        s1 == IF Truthy(tagname) THEN s0 \o <<"-", "-">> \o Lower(tagname) ELSE s0
        s2 == IF Truthy(pretagname)
              THEN Lower(pretagname) \o <<"-", "-">> \o s1 ELSE s1
    IN  IF Truthy(t1) /\ ~Truthy(t2)
        THEN s2 \o <<"-", "-">> \o Lower(t1)
        ELSE IF Truthy(t1) /\ Truthy(t2)
        THEN s2 \o <<"-", "-">> \o Lower(t2) \o <<"_">> \o Lower(t1)
        ELSE s2

\* Mutant: the spaces are left in the stem.
ConstructStem_KeepsSpaces(name, pretagname, tagname, t1, t2) ==
    Replace(StemParts(name, pretagname, tagname, t1, t2), <<".">>, <<"_">>)

\* Lines 73-87
ConstructStem(name, pretagname, tagname, t1, t2) ==
    Replace(Replace(StemParts(name, pretagname, tagname, t1, t2), <<".">>, <<"_">>),
            <<" ">>, <<"_">>)

LocFolder(loc) ==
    CASE loc = "surface" -> <<"m", "a", "p", "s">>
      [] loc = "grid" -> <<"g", "r", "i", "d", "s">>
      [] loc = "table" -> <<"t", "a", "b", "l", "e", "s">>
      [] loc = "polygons" -> <<"p", "o", "l", "y", "g", "o", "n", "s">>
      [] loc = "cube" -> <<"c", "u", "b", "e", "s">>
      [] OTHER -> <<"o", "t", "h", "e", "r">>

ConstructDest(outroot, loc, subfolder) ==
    LET d0 == PathDiv(PathOf(outroot), LocFolder(loc))
    IN  IF Truthy(subfolder) THEN PathDiv(d0, subfolder) ELSE d0

\* The value construct_filename returns, or the exception it raises: dest is
\* bound only inside the "if fmu == 1" block.
construct_filename(name, pretagname, tagname, t1, t2, subfolder, fmu, outroot, loc) ==
    IF fmu = 1
    THEN [k |-> "return",
          stem |-> ConstructStem(name, pretagname, tagname, t1, t2),
          dest |-> ConstructDest(outroot, loc, subfolder)]
    ELSE [k |-> "raise", exc |-> "UnboundLocalError"]

\* Mutant: dest is kept in the module between calls, so a call with another
\* fmu style returns what the call before it left there.
CallConstructFilename_StaleDest(c) ==
    /\ c.op = "construct_filename"
    /\ loggerLevel' = LevelOf(c.verbosity)
    /\ call' = c
    /\ result' = IF c.fmu # 1 /\ call.op = "construct_filename" /\ result.k = "return"
                 THEN [k |-> "return", stem |-> <<"u", "n", "s", "e", "t">>,
                       dest |-> result.dest]
                 ELSE construct_filename(c.name, c.pretagname, c.tagname, c.t1, c.t2,
                                         c.subfolder, c.fmu, c.outroot, c.loc)
    /\ UNCHANGED <<dirs, files>>

CallConstructFilename(c) ==
    /\ c.op = "construct_filename"
    /\ loggerLevel' = LevelOf(c.verbosity)
    /\ call' = c
    /\ result' = construct_filename(c.name, c.pretagname, c.tagname, c.t1, c.t2,
                                    c.subfolder, c.fmu, c.outroot, c.loc)
    /\ UNCHANGED <<dirs, files>>

(***************************************************************************)
(* pathlib and the file system, as far as verify_path uses them.           *)
(***************************************************************************)
Front(s) == SubSeq(s, 1, Len(s) - 1)

Last(s) == s[Len(s)]

\* str.rfind("."): the last index of a dot, 0 when there is none (Python: -1
\* and 0-based; here 1-based, so Python's i is RFindDot - 1).
RFindDot(name) ==
    IF \A i \in 1..Len(name) : name[i] # "." THEN 0
    ELSE CHOOSE i \in 1..Len(name) :
             name[i] = "." /\ \A j \in (i + 1)..Len(name) : name[j] # "."

\* PurePath.suffix: name[i:] when 0 < i < len(name) - 1 for i = name.rfind('.').
Suffix(name) ==
    LET i == RFindDot(name) - 1
    IN  IF 0 < i /\ i < Len(name) - 1 THEN Drop(name, i) ELSE <<>>

\* PurePath.with_suffix(suffix) accepts "" and suffixes ".x" without a slash.
ValidSuffix(suffix) ==
    /\ \A i \in 1..Len(suffix) : suffix[i] # "/"
    /\ suffix = <<>> \/ (Head(suffix) = "." /\ suffix # <<".">>)

\* The name PurePath.with_suffix gives a path whose last part is name.
WithSuffixName(name, suffix) ==
    LET old == Suffix(name)
    IN  IF old = <<>> THEN name \o suffix
        ELSE SubSeq(name, 1, Len(name) - Len(old)) \o suffix

\* path.with_suffix(suffix), for a valid suffix and a path with a name.
WithSuffix(p, suffix) ==
    [abs |-> p.abs, parts |-> Append(Front(p.parts), WithSuffixName(Last(p.parts), suffix))]

\* path.parent
Parent(p) == IF p.parts = <<>> THEN p ELSE [abs |-> p.abs, parts |-> Front(p.parts)]

DotDot == <<".", ".">>

\* The directory an absolute part list names, ".." resolved; the root is <<>>.
RECURSIVE Normal(_)
Normal(parts) ==
    IF parts = <<>> THEN <<>>
    ELSE LET up == Normal(Front(parts))
         IN  IF Last(parts) = DotDot
             THEN (IF up = <<>> THEN <<>> ELSE Front(up))
             ELSE Append(up, Last(parts))

\* Path.resolve() of an absolute path (no symbolic links in the model).
Resolve(p) == [abs |-> TRUE, parts |-> Normal(p.parts)]

\* The operating system can walk the absolute part list in the directory set d:
\* every prefix names an existing directory.
Walkable(d, parts) ==
    \A n \in 1..Len(parts) : Normal(SubSeq(parts, 1, n)) \in d \cup {<<>>}

\* Path.exists()
Exists(d, p) == Walkable(d, p.parts)

\* os.mkdir(parts) in d: FileNotFoundError when the parent cannot be walked,
\* FileExistsError (swallowed, exist_ok=True) when the directory is there.
OsMkdir(d, parts) ==
    IF parts = <<>> THEN d ELSE (d \cup {Normal(parts)}) \ {<<>>}

\* Path.mkdir(parents=True, exist_ok=True): the directories afterwards.
RECURSIVE MkdirParents(_, _)
MkdirParents(d, parts) ==
    IF parts = <<>> \/ Walkable(d, Front(parts))
    THEN OsMkdir(d, parts)
    ELSE OsMkdir(MkdirParents(d, Front(parts)), parts)

\* os.path.join(a, b)
OsPathJoin(a, b) ==
    IF StartsWith(b, <<"/">>) THEN b
    ELSE IF a = <<>> \/ Last(a) = "/" THEN a \o b
    ELSE a \o <<"/">> \o b

(***************************************************************************)
(* verify_path: the value returned or the exception raised, and the        *)
(* directories afterwards.  dataio is the record of the attributes read:   *)
(* _verbosity, _pwd, createfolder, _realfolder, _iterfolder.               *)
(***************************************************************************)
YmlExt == <<".", "y", "m", "l">>

\* Mutant: a dry run checks the folder too.
FolderCheckPasses_IgnoresDryrun(dataio, dryrun, d, path) ==
    Exists(d, Parent(path)) \/ dataio.createfolder

\* Lines 123-131: does the folder check let the call go on?
FolderCheckPasses(dataio, dryrun, d, path) ==
    dryrun \/ Exists(d, Parent(path)) \/ dataio.createfolder

\* Lines 123-131: the directories after the folder check.
FolderCheckDirs(dataio, dryrun, d, path) ==
    IF ~dryrun /\ ~Exists(d, Parent(path)) /\ dataio.createfolder
    THEN MkdirParents(d, Parent(path).parts)
    ELSE d

\* Lines 134-136
MetaPath(folder, filename, ext) ==
    Resolve(WithSuffix(PathDiv(folder, <<".">> \o Lower(filename)), ext \o YmlExt))

\* Mutant: the prefix is added when either folder is known.
RelPath_EitherFolder(dataio, filedest, filename, ext) ==
    LET r0 == Replace(PathStr(filedest), <<".", ".", "/">>, <<>>)
        r1 == IF dataio.realfolder # None \/ dataio.iterfolder # None
              THEN OsPathJoin(dataio.realfolder \o <<"/">> \o dataio.iterfolder, r0)
              ELSE r0
    IN  r1 \o <<"/">> \o Lower(filename) \o ext

\* Lines 139-142
RelPath(dataio, filedest, filename, ext) ==
    LET r0 == Replace(PathStr(filedest), <<".", ".", "/">>, <<>>)
        r1 == IF dataio.realfolder # None /\ dataio.iterfolder # None
              THEN OsPathJoin(dataio.realfolder \o <<"/">> \o dataio.iterfolder, r0)
              ELSE r0
    IN  r1 \o <<"/">> \o Lower(filename) \o ext

verify_path(dataio, filedest, filename, ext, dryrun, d) ==
    LET folder == IF filedest.abs THEN filedest
                  ELSE [abs |-> TRUE, parts |-> dataio.pwd.parts \o filedest.parts]
        path0 == PathDiv(folder, Lower(filename))
        sfx == Suffix(Last(path0.parts)) \o ext
    IN  IF ~ValidSuffix(sfx)
        THEN [res |-> [k |-> "raise", exc |-> "ValueError"], dirs |-> d]
        ELSE LET path == WithSuffix(path0, sfx)
                 d1 == FolderCheckDirs(dataio, dryrun, d, path)
             IN  IF ~FolderCheckPasses(dataio, dryrun, d, path)
                 THEN [res |-> [k |-> "raise", exc |-> "IOError"], dirs |-> d]
                 ELSE IF ~ValidSuffix(ext \o YmlExt)
                 THEN [res |-> [k |-> "raise", exc |-> "ValueError"], dirs |-> d1]
                 ELSE [res |-> [k |-> "return",
                                path |-> path,
                                metapath |-> MetaPath(folder, filename, ext),
                                relpath |-> RelPath(dataio, filedest, filename, ext),
                                abspath |-> Resolve(path)],
                       dirs |-> d1]

CallVerifyPath(c) ==
    /\ c.op = "verify_path"
    /\ loggerLevel' = LevelOf(c.dataio.verbosity)
    /\ call' = c
    /\ LET r == verify_path(c.dataio, c.filedest, c.filename, c.ext, c.dryrun, dirs)
       IN  result' = r.res /\ dirs' = r.dirs
    /\ UNCHANGED files

(***************************************************************************)
(* Python values of the metadata: None, scalars, dicts (insertion-ordered  *)
(* lists of entries), lists and tuples.                                    *)
(***************************************************************************)
PyNone == [k |-> "none"]

PyInt(n) == [k |-> "int", v |-> n]

PyDict(entries) == [k |-> "dict", v |-> entries]

PySeq(kind, items) == [k |-> kind, v |-> items]

Entry(key, val) == [key |-> key, val |-> val]

(***************************************************************************)
(* drop_nones                                                              *)
(***************************************************************************)
RECURSIVE drop_nones(_)
RECURSIVE DropNonesEntries(_)
RECURSIVE DropNonesItems(_)

\* Line 161-163: type(val)(drop_nones(vv) if isinstance(vv, dict) else vv ...)
DropNonesItems(items) ==
    IF items = <<>> THEN <<>>
    ELSE <<IF Head(items).k = "dict" THEN drop_nones(Head(items)) ELSE Head(items)>>
         \o DropNonesItems(Tail(items))

\* Lines 155-165: the loop over dinput.items(), filling dd.
DropNonesEntries(entries) ==
    IF entries = <<>> THEN <<>>
    ELSE LET key == Head(entries).key
             val == Head(entries).val
             rest == DropNonesEntries(Tail(entries))
         IN  IF val.k = "dict" THEN <<Entry(key, drop_nones(val))>> \o rest
             ELSE IF val.k \in {"list", "set", "tuple"}
             THEN <<Entry(key, PySeq(val.k, DropNonesItems(val.v)))>> \o rest
             ELSE IF val # PyNone THEN <<Entry(key, val)>> \o rest
             ELSE rest

drop_nones(dinput) == PyDict(DropNonesEntries(dinput.v))

CallDropNones(c) ==
    /\ c.op = "drop_nones"
    /\ call' = c
    /\ result' = [k |-> "return", value |-> drop_nones(c.dinput)]
    /\ UNCHANGED <<loggerLevel, dirs, files>>

(***************************************************************************)
(* export_metadata_file                                                    *)
(***************************************************************************)
\* What both dumpers (YAML safe_dump, json.dumps) do to the structure: a tuple
\* is written as a list; None is written as null.
RECURSIVE Dumped(_)
RECURSIVE DumpedItems(_)
RECURSIVE DumpedEntries(_)
DumpedItems(items) ==
    IF items = <<>> THEN <<>>
    ELSE <<Dumped(Head(items))>> \o DumpedItems(Tail(items))

DumpedEntries(entries) ==
    IF entries = <<>> THEN <<>>
    ELSE <<Entry(Head(entries).key, Dumped(Head(entries).val))>>
         \o DumpedEntries(Tail(entries))

Dumped(x) ==
    IF x.k = "dict" THEN PyDict(DumpedEntries(x.v))
    ELSE IF x.k \in {"list", "tuple"} THEN PySeq("list", DumpedItems(x.v))
    ELSE x

\* "if metadata:" -- None and the empty dict are falsy.
MetadataPresent(metadata) == metadata # PyNone /\ metadata # PyDict(<<>>)

\* Lines 176-184: the file written, as <<path, format, content>>.
MetadataFile(yfile, metadata, savefmt) ==
    IF savefmt = "yaml"
    THEN [path |-> yfile, fmt |-> "yaml", data |-> Dumped(drop_nones(metadata))]
    ELSE [path |-> Replace(yfile, <<".", "y", "m", "l">>, <<".", "j", "s", "o", "n">>),
          fmt |-> "json", data |-> Dumped(drop_nones(metadata))]

\* open(path, "w") and write: the file at that path is replaced.
WriteFile(out, f) == {g \in out : g.path # f.path} \cup {f}

CallExportMetadataFile(c) ==
    /\ c.op = "export_metadata_file"
    /\ loggerLevel' = LevelOf(c.verbosity)
    /\ call' = c
    /\ IF MetadataPresent(c.metadata)
       THEN /\ files' = [files EXCEPT !.out =
                             WriteFile(@, MetadataFile(c.yfile, c.metadata, c.savefmt))]
            /\ result' = [k |-> "return", value |-> PyNone]
       ELSE /\ files' = files
            /\ result' = [k |-> "raise", exc |-> "RuntimeError"]
    /\ UNCHANGED dirs

(***************************************************************************)
(* uuid_from_string                                                        *)
(***************************************************************************)
\* hashlib.md5(s.encode("utf-8")).hexdigest() on the strings of the model.
Md5HexDigest(s) ==
    CASE s = <<>> ->
           <<"d", "4", "1", "d", "8", "c", "d", "9", "8", "f", "0", "0", "b", "2", "0", "4", "e", "9", "8", "0", "0", "9", "9", "8", "e", "c", "f", "8", "4", "2", "7", "e">>
      [] s = <<"a">> ->
           <<"0", "c", "c", "1", "7", "5", "b", "9", "c", "0", "f", "1", "b", "6", "a", "8", "3", "1", "c", "3", "9", "9", "e", "2", "6", "9", "7", "7", "2", "6", "6", "1">>
      [] s = <<"b">> ->
           <<"9", "2", "e", "b", "5", "f", "f", "e", "e", "6", "a", "e", "2", "f", "e", "c", "3", "a", "d", "7", "1", "c", "7", "7", "7", "5", "3", "1", "5", "7", "8", "f">>
      [] s = <<"c">> ->
           <<"4", "a", "8", "a", "0", "8", "f", "0", "9", "d", "3", "7", "b", "7", "3", "7", "9", "5", "6", "4", "9", "0", "3", "8", "4", "0", "8", "b", "5", "f", "3", "3">>
      [] s = <<"d">> ->
           <<"8", "2", "7", "7", "e", "0", "9", "1", "0", "d", "7", "5", "0", "1", "9", "5", "b", "4", "4", "8", "7", "9", "7", "6", "1", "6", "e", "0", "9", "1", "a", "d">>
      [] s = <<"a", "a">> ->
           <<"4", "1", "2", "4", "b", "c", "0", "a", "9", "3", "3", "5", "c", "2", "7", "f", "0", "8", "6", "f", "2", "4", "b", "a", "2", "0", "7", "a", "4", "9", "1", "2">>
      [] s = <<"a", "b">> ->
           <<"1", "8", "7", "e", "f", "4", "4", "3", "6", "1", "2", "2", "d", "1", "c", "c", "2", "f", "4", "0", "d", "c", "2", "b", "9", "2", "f", "0", "e", "b", "a", "0">>
      [] s = <<"a", "c">> ->
           <<"e", "2", "0", "7", "5", "4", "7", "4", "2", "9", "4", "9", "8", "3", "e", "0", "1", "3", "e", "e", "4", "d", "d", "2", "2", "0", "1", "c", "7", "a", "7", "3">>
      [] s = <<"a", "d">> ->
           <<"5", "2", "3", "a", "f", "5", "3", "7", "9", "4", "6", "b", "7", "9", "c", "4", "f", "8", "3", "6", "9", "e", "d", "3", "9", "b", "a", "7", "8", "6", "0", "5">>
      [] s = <<"b", "a">> ->
           <<"0", "7", "1", "5", "9", "c", "4", "7", "e", "e", "1", "b", "1", "9", "a", "e", "4", "f", "b", "9", "c", "4", "0", "d", "4", "8", "0", "8", "5", "6", "c", "4">>
      [] s = <<"b", "b">> ->
           <<"2", "1", "a", "d", "0", "b", "d", "8", "3", "6", "b", "9", "0", "d", "0", "8", "f", "4", "c", "f", "6", "4", "0", "b", "4", "c", "2", "9", "8", "e", "7", "c">>
      [] s = <<"b", "c">> ->
           <<"5", "3", "6", "0", "a", "f", "3", "5", "b", "d", "e", "9", "e", "b", "d", "8", "f", "0", "1", "f", "4", "9", "2", "d", "c", "0", "5", "9", "5", "9", "3", "c">>
      [] s = <<"b", "d">> ->
           <<"c", "4", "1", "9", "b", "0", "6", "b", "4", "c", "6", "5", "7", "9", "b", "5", "0", "f", "f", "0", "5", "a", "d", "b", "3", "b", "8", "4", "2", "4", "f", "1">>
      [] s = <<"c", "a">> ->
           <<"5", "4", "3", "5", "c", "6", "9", "e", "d", "3", "b", "c", "c", "5", "b", "2", "e", "4", "d", "5", "8", "0", "e", "3", "9", "3", "e", "3", "7", "3", "d", "3">>
      [] s = <<"c", "b">> ->
           <<"d", "0", "d", "7", "f", "d", "b", "6", "9", "7", "7", "b", "2", "6", "9", "2", "9", "f", "b", "6", "8", "c", "6", "0", "8", "3", "c", "0", "b", "4", "3", "9">>
      [] s = <<"c", "c">> ->
           <<"e", "0", "3", "2", "3", "a", "9", "0", "3", "9", "a", "d", "d", "2", "9", "7", "8", "b", "f", "5", "b", "4", "9", "5", "5", "0", "5", "7", "2", "c", "7", "c">>
      [] s = <<"c", "d">> ->
           <<"6", "8", "6", "5", "a", "e", "b", "3", "a", "9", "e", "d", "2", "8", "f", "9", "a", "7", "9", "e", "c", "4", "5", "4", "b", "2", "5", "9", "e", "5", "d", "0">>
      [] s = <<"d", "a">> ->
           <<"5", "c", "a", "2", "a", "a", "8", "4", "5", "c", "8", "c", "d", "5", "a", "c", "e", "6", "b", "0", "1", "6", "8", "4", "1", "f", "1", "0", "0", "d", "8", "2">>
      [] s = <<"d", "b">> ->
           <<"d", "7", "7", "d", "5", "e", "5", "0", "3", "a", "d", "1", "4", "3", "9", "f", "5", "8", "5", "a", "c", "4", "9", "4", "2", "6", "8", "b", "3", "5", "1", "b">>
      [] s = <<"d", "c">> ->
           <<"3", "2", "1", "2", "f", "5", "f", "4", "6", "3", "e", "d", "b", "3", "7", "0", "f", "f", "5", "5", "d", "3", "c", "3", "a", "7", "a", "1", "5", "c", "8", "f">>
      [] s = <<"d", "d">> ->
           <<"1", "a", "a", "b", "a", "c", "6", "d", "0", "6", "8", "e", "e", "f", "6", "a", "7", "b", "a", "d", "3", "f", "d", "f", "5", "0", "a", "0", "5", "c", "c", "8">>
      [] s = <<"a", "a", "a">> ->
           <<"4", "7", "b", "c", "e", "5", "c", "7", "4", "f", "5", "8", "9", "f", "4", "8", "6", "7", "d", "b", "d", "5", "7", "e", "9", "c", "a", "9", "f", "8", "0", "8">>
      [] s = <<"a", "a", "b">> ->
           <<"e", "6", "2", "5", "9", "5", "e", "e", "9", "8", "b", "5", "8", "5", "1", "5", "3", "d", "a", "c", "8", "7", "c", "e", "1", "a", "b", "6", "9", "c", "3", "c">>
      [] s = <<"a", "a", "c">> ->
           <<"a", "9", "c", "e", "d", "3", "d", "a", "d", "5", "5", "6", "8", "1", "4", "e", "d", "4", "6", "0", "4", "2", "d", "e", "6", "9", "6", "e", "1", "8", "4", "9">>
      [] s = <<"a", "a", "d">> ->
           <<"c", "2", "f", "7", "a", "b", "4", "6", "d", "f", "3", "d", "b", "8", "4", "2", "0", "4", "0", "a", "8", "6", "a", "0", "8", "9", "7", "a", "5", "3", "7", "7">>
      [] s = <<"a", "b", "a">> ->
           <<"7", "9", "a", "f", "8", "7", "7", "2", "3", "d", "c", "2", "9", "5", "f", "9", "5", "b", "d", "b", "2", "7", "7", "a", "6", "1", "1", "8", "9", "a", "2", "a">>
      [] s = <<"a", "b", "b">> ->
           <<"e", "a", "0", "1", "e", "5", "f", "d", "8", "e", "4", "d", "8", "8", "3", "2", "8", "2", "5", "a", "c", "d", "d", "2", "0", "e", "a", "c", "5", "1", "0", "4">>
      [] s = <<"a", "b", "c">> ->
           <<"9", "0", "0", "1", "5", "0", "9", "8", "3", "c", "d", "2", "4", "f", "b", "0", "d", "6", "9", "6", "3", "f", "7", "d", "2", "8", "e", "1", "7", "f", "7", "2">>
      [] s = <<"a", "b", "d">> ->
           <<"4", "9", "1", "1", "e", "5", "1", "6", "e", "5", "a", "a", "2", "1", "d", "3", "2", "7", "5", "1", "2", "e", "0", "c", "8", "b", "1", "9", "7", "6", "1", "6">>
      [] s = <<"a", "c", "a">> ->
           <<"2", "6", "7", "1", "e", "b", "6", "e", "9", "1", "5", "0", "c", "f", "9", "b", "5", "3", "e", "b", "3", "9", "7", "5", "2", "a", "1", "f", "b", "2", "1", "c">>
      [] s = <<"a", "c", "b">> ->
           <<"5", "f", "f", "8", "3", "2", "d", "9", "b", "c", "a", "8", "2", "4", "1", "d", "6", "5", "3", "2", "7", "9", "7", "5", "6", "f", "3", "c", "c", "d", "1", "1">>
      [] s = <<"a", "c", "c">> ->
           <<"1", "6", "7", "3", "4", "4", "8", "e", "e", "7", "0", "6", "4", "c", "9", "8", "9", "d", "0", "2", "5", "7", "9", "c", "5", "3", "4", "f", "6", "b", "6", "6">>
      [] s = <<"a", "c", "d">> ->
           <<"3", "7", "0", "2", "9", "4", "3", "0", "c", "f", "d", "0", "6", "a", "e", "2", "a", "2", "7", "9", "c", "c", "1", "e", "2", "5", "0", "4", "e", "7", "c", "3">>
      [] s = <<"a", "d", "a">> ->
           <<"8", "c", "8", "d", "3", "5", "7", "b", "5", "e", "8", "7", "2", "b", "b", "a", "c", "d", "4", "5", "1", "9", "7", "6", "2", "6", "b", "d", "5", "7", "5", "9">>
      [] s = <<"a", "d", "b">> ->
           <<"3", "f", "d", "f", "7", "f", "f", "2", "1", "1", "e", "e", "c", "1", "d", "d", "e", "7", "5", "b", "b", "d", "b", "a", "2", "e", "8", "b", "5", "b", "d", "e">>
      [] s = <<"a", "d", "c">> ->
           <<"2", "2", "5", "e", "8", "a", "3", "f", "e", "2", "0", "e", "9", "5", "f", "6", "c", "d", "9", "b", "9", "e", "1", "0", "b", "f", "e", "5", "e", "b", "6", "9">>
      [] s = <<"a", "d", "d">> ->
           <<"3", "4", "e", "c", "7", "8", "f", "c", "c", "9", "1", "f", "f", "b", "1", "e", "5", "4", "c", "d", "8", "5", "e", "4", "a", "0", "9", "2", "4", "3", "3", "2">>
      [] s = <<"b", "a", "a">> ->
           <<"8", "c", "d", "c", "d", "a", "7", "9", "a", "8", "d", "c", "6", "6", "a", "a", "6", "c", "7", "1", "1", "c", "9", "a", "0", "0", "0", "b", "0", "a", "c", "0">>
      [] s = <<"b", "a", "b">> ->
           <<"d", "9", "d", "7", "d", "b", "d", "d", "c", "2", "9", "1", "7", "7", "b", "1", "2", "1", "a", "6", "a", "a", "1", "b", "b", "0", "9", "d", "1", "5", "f", "d">>
      [] s = <<"b", "a", "c">> ->
           <<"7", "9", "e", "c", "1", "6", "d", "f", "8", "0", "b", "5", "7", "6", "9", "6", "a", "0", "3", "b", "b", "3", "6", "4", "4", "1", "0", "0", "6", "1", "f", "3">>
      [] s = <<"b", "a", "d">> ->
           <<"b", "a", "e", "6", "0", "9", "9", "8", "f", "f", "e", "4", "9", "2", "3", "b", "1", "3", "1", "e", "3", "d", "6", "e", "4", "c", "1", "9", "9", "9", "3", "e">>
      [] s = <<"b", "b", "a">> ->
           <<"f", "c", "4", "5", "1", "6", "0", "0", "4", "2", "0", "1", "7", "c", "5", "2", "0", "9", "a", "5", "2", "4", "c", "6", "a", "b", "0", "f", "a", "c", "2", "7">>
      [] s = <<"b", "b", "b">> ->
           <<"0", "8", "f", "8", "e", "0", "2", "6", "0", "c", "6", "4", "4", "1", "8", "5", "1", "0", "c", "e", "f", "b", "2", "b", "0", "6", "e", "e", "e", "5", "c", "d">>
      [] s = <<"b", "b", "c">> ->
           <<"9", "9", "b", "e", "4", "9", "6", "a", "b", "9", "a", "d", "1", "c", "d", "2", "b", "9", "9", "1", "0", "c", "e", "c", "f", "1", "4", "2", "2", "3", "5", "a">>
      [] s = <<"b", "b", "d">> ->
           <<"4", "f", "2", "0", "8", "c", "5", "2", "2", "a", "e", "3", "6", "c", "3", "e", "2", "f", "0", "f", "9", "6", "2", "9", "1", "b", "a", "4", "f", "8", "a", "2">>
      [] s = <<"b", "c", "a">> ->
           <<"b", "6", "4", "e", "a", "b", "8", "c", "e", "3", "9", "e", "0", "1", "3", "6", "0", "4", "e", "2", "4", "3", "0", "8", "9", "c", "6", "8", "7", "e", "4", "f">>
      [] s = <<"b", "c", "b">> ->
           <<"2", "e", "1", "7", "6", "c", "4", "d", "6", "e", "a", "6", "0", "9", "8", "6", "4", "3", "f", "4", "c", "1", "b", "d", "7", "5", "7", "f", "7", "c", "1", "7">>
      [] s = <<"b", "c", "c">> ->
           <<"d", "c", "9", "2", "6", "2", "a", "4", "6", "9", "f", "6", "f", "3", "1", "5", "f", "7", "4", "c", "0", "8", "7", "a", "7", "b", "3", "a", "7", "f", "3", "5">>
      [] s = <<"b", "c", "d">> ->
           <<"d", "4", "b", "7", "c", "2", "8", "4", "8", "8", "2", "c", "a", "9", "e", "2", "0", "8", "b", "b", "6", "5", "e", "8", "a", "b", "d", "5", "f", "4", "c", "8">>
      [] s = <<"b", "d", "a">> ->
           <<"9", "1", "7", "7", "d", "2", "4", "9", "3", "3", "8", "e", "2", "b", "2", "3", "9", "4", "f", "6", "5", "f", "a", "a", "1", "7", "a", "4", "6", "a", "2", "9">>
      [] s = <<"b", "d", "b">> ->
           <<"e", "c", "9", "3", "5", "5", "b", "c", "b", "8", "b", "2", "2", "b", "e", "6", "9", "2", "e", "c", "4", "e", "c", "2", "0", "d", "7", "4", "1", "2", "b", "7">>
      [] s = <<"b", "d", "c">> ->
           <<"0", "a", "5", "5", "9", "3", "4", "d", "4", "8", "1", "1", "2", "7", "b", "d", "4", "c", "8", "1", "a", "c", "1", "b", "7", "6", "e", "d", "4", "5", "e", "e">>
      [] s = <<"b", "d", "d">> ->
           <<"6", "1", "d", "e", "9", "6", "2", "f", "1", "9", "b", "6", "8", "4", "d", "c", "9", "c", "e", "2", "4", "c", "0", "f", "d", "c", "d", "b", "d", "0", "d", "e">>
      [] s = <<"c", "a", "a">> ->
           <<"f", "9", "3", "1", "8", "2", "2", "f", "e", "d", "1", "9", "3", "2", "e", "3", "3", "4", "5", "0", "b", "9", "1", "3", "0", "5", "4", "a", "0", "c", "3", "d">>
      [] s = <<"c", "a", "b">> ->
           <<"1", "6", "e", "c", "f", "d", "6", "4", "5", "8", "6", "e", "c", "6", "c", "1", "a", "b", "2", "1", "2", "7", "6", "2", "c", "2", "c", "3", "8", "a", "9", "0">>
      [] s = <<"c", "a", "c">> ->
           <<"1", "9", "2", "1", "f", "9", "e", "1", "4", "1", "6", "4", "7", "3", "a", "1", "d", "0", "f", "1", "5", "d", "3", "2", "8", "e", "8", "3", "7", "1", "1", "5">>
      [] s = <<"c", "a", "d">> ->
           <<"b", "5", "f", "d", "e", "5", "1", "2", "c", "7", "6", "5", "7", "1", "c", "8", "a", "f", "d", "6", "a", "6", "0", "8", "9", "e", "a", "a", "f", "4", "2", "a">>
      [] s = <<"c", "b", "a">> ->
           <<"3", "9", "4", "4", "b", "0", "2", "5", "c", "9", "c", "a", "7", "e", "e", "c", "3", "1", "5", "4", "b", "4", "4", "6", "6", "6", "a", "e", "0", "4", "a", "0">>
      [] s = <<"c", "b", "b">> ->
           <<"c", "a", "1", "f", "9", "e", "0", "4", "0", "2", "4", "c", "3", "b", "6", "4", "d", "7", "b", "a", "5", "f", "b", "e", "9", "5", "e", "c", "1", "3", "0", "e">>
      [] s = <<"c", "b", "c">> ->
           <<"c", "c", "b", "2", "4", "1", "b", "4", "0", "1", "4", "c", "f", "b", "8", "a", "2", "b", "a", "0", "d", "a", "0", "a", "9", "4", "3", "a", "c", "9", "f", "f">>
      [] s = <<"c", "b", "d">> ->
           <<"e", "8", "c", "7", "1", "a", "e", "8", "2", "6", "0", "8", "9", "2", "2", "7", "9", "2", "1", "4", "9", "9", "8", "d", "5", "6", "e", "5", "5", "b", "8", "e">>
      [] s = <<"c", "c", "a">> ->
           <<"5", "a", "8", "9", "9", "2", "4", "a", "d", "3", "5", "3", "f", "0", "f", "0", "d", "5", "b", "7", "b", "f", "6", "e", "e", "8", "e", "0", "9", "0", "9", "b">>
      [] s = <<"c", "c", "b">> ->
           <<"b", "5", "6", "b", "e", "1", "0", "7", "e", "0", "2", "f", "1", "6", "a", "1", "5", "5", "7", "f", "e", "6", "b", "8", "2", "0", "c", "0", "7", "f", "f", "f">>
      [] s = <<"c", "c", "c">> ->
           <<"9", "d", "f", "6", "2", "e", "6", "9", "3", "9", "8", "8", "e", "b", "4", "e", "1", "e", "1", "4", "4", "4", "e", "c", "e", "0", "5", "7", "8", "5", "7", "9">>
      [] s = <<"c", "c", "d">> ->
           <<"3", "b", "e", "c", "b", "4", "d", "7", "1", "8", "1", "c", "0", "1", "b", "f", "1", "4", "0", "3", "c", "0", "2", "f", "d", "f", "e", "b", "e", "1", "4", "7">>
      [] s = <<"c", "d", "a">> ->
           <<"c", "f", "2", "5", "0", "8", "f", "1", "9", "a", "f", "5", "4", "4", "b", "3", "a", "b", "4", "9", "3", "5", "d", "d", "b", "7", "4", "1", "4", "a", "9", "d">>
      [] s = <<"c", "d", "b">> ->
           <<"7", "8", "5", "b", "3", "0", "4", "4", "3", "f", "d", "6", "e", "2", "d", "e", "1", "6", "0", "4", "0", "8", "d", "d", "c", "f", "c", "a", "e", "6", "f", "a">>
      [] s = <<"c", "d", "c">> ->
           <<"8", "a", "e", "1", "1", "4", "d", "f", "2", "6", "4", "1", "b", "6", "8", "1", "b", "4", "f", "c", "5", "1", "e", "d", "9", "8", "9", "f", "9", "7", "b", "2">>
      [] s = <<"c", "d", "d">> ->
           <<"f", "8", "c", "c", "c", "b", "0", "1", "9", "9", "e", "1", "2", "f", "9", "7", "e", "1", "f", "8", "0", "7", "8", "7", "2", "c", "f", "7", "a", "8", "a", "a">>
      [] s = <<"d", "a", "a">> ->
           <<"a", "f", "a", "9", "3", "9", "a", "d", "f", "5", "2", "d", "d", "c", "b", "d", "2", "0", "4", "c", "8", "1", "4", "a", "f", "c", "d", "d", "7", "5", "4", "a">>
      [] s = <<"d", "a", "b">> ->
           <<"1", "1", "c", "6", "d", "4", "7", "1", "f", "a", "4", "e", "3", "5", "4", "e", "6", "2", "e", "6", "8", "4", "d", "2", "9", "3", "6", "9", "4", "2", "0", "2">>
      [] s = <<"d", "a", "c">> ->
           <<"b", "7", "5", "4", "2", "7", "b", "0", "3", "1", "d", "9", "e", "c", "e", "8", "5", "8", "e", "5", "f", "9", "4", "0", "4", "4", "6", "9", "c", "6", "c", "9">>
      [] s = <<"d", "a", "d">> ->
           <<"d", "f", "3", "9", "3", "9", "f", "1", "1", "9", "6", "5", "e", "7", "e", "7", "5", "d", "b", "c", "0", "4", "6", "c", "d", "9", "a", "f", "1", "c", "6", "7">>
      [] s = <<"d", "b", "a">> ->
           <<"d", "6", "9", "3", "c", "4", "8", "7", "1", "a", "9", "9", "d", "7", "a", "c", "f", "4", "3", "c", "4", "b", "1", "1", "1", "2", "d", "a", "0", "c", "6", "e">>
      [] s = <<"d", "b", "b">> ->
           <<"5", "a", "2", "3", "2", "a", "7", "a", "0", "0", "e", "1", "7", "8", "d", "b", "7", "b", "d", "a", "b", "5", "9", "2", "5", "8", "d", "9", "5", "c", "c", "8">>
      [] s = <<"d", "b", "c">> ->
           <<"4", "a", "4", "2", "9", "e", "0", "b", "8", "8", "7", "1", "e", "c", "7", "8", "8", "a", "3", "a", "1", "7", "1", "5", "4", "5", "d", "9", "5", "9", "e", "8">>
      [] s = <<"d", "b", "d">> ->
           <<"c", "0", "7", "2", "f", "6", "6", "d", "1", "5", "3", "0", "f", "8", "c", "0", "7", "3", "3", "3", "f", "b", "b", "0", "3", "f", "a", "7", "4", "7", "7", "e">>
      [] s = <<"d", "c", "a">> ->
           <<"b", "2", "b", "3", "6", "a", "2", "b", "e", "c", "d", "0", "3", "9", "2", "1", "5", "0", "9", "4", "c", "c", "f", "3", "f", "a", "4", "3", "a", "e", "e", "1">>
      [] s = <<"d", "c", "b">> ->
           <<"f", "0", "e", "7", "1", "c", "e", "a", "b", "2", "a", "3", "1", "f", "a", "1", "b", "1", "9", "7", "3", "1", "6", "d", "2", "d", "c", "a", "3", "f", "7", "c">>
      [] s = <<"d", "c", "c">> ->
           <<"3", "b", "1", "1", "d", "4", "e", "d", "5", "3", "7", "c", "e", "d", "2", "0", "e", "4", "1", "a", "9", "b", "8", "a", "0", "6", "7", "f", "5", "d", "8", "5">>
      [] s = <<"d", "c", "d">> ->
           <<"7", "b", "1", "6", "7", "8", "3", "a", "9", "d", "7", "c", "e", "4", "4", "e", "1", "2", "d", "e", "b", "7", "c", "9", "a", "3", "7", "2", "a", "0", "2", "7">>
      [] s = <<"d", "d", "a">> ->
           <<"7", "4", "f", "0", "b", "9", "4", "6", "9", "b", "3", "0", "d", "1", "9", "2", "1", "7", "5", "7", "f", "2", "e", "2", "a", "a", "8", "c", "a", "c", "b", "8">>
      [] s = <<"d", "d", "b">> ->
           <<"8", "4", "9", "4", "f", "3", "8", "e", "8", "5", "e", "a", "5", "5", "0", "d", "9", "7", "6", "e", "f", "c", "e", "c", "8", "9", "c", "a", "6", "7", "f", "c">>
      [] s = <<"d", "d", "c">> ->
           <<"b", "6", "6", "e", "f", "2", "0", "5", "d", "4", "b", "b", "a", "3", "3", "9", "0", "b", "c", "5", "1", "6", "4", "2", "b", "3", "f", "3", "9", "7", "d", "2">>
      [] s = <<"d", "d", "d">> ->
           <<"7", "7", "9", "6", "3", "b", "7", "a", "9", "3", "1", "3", "7", "7", "a", "d", "4", "a", "b", "5", "a", "d", "6", "a", "9", "c", "d", "7", "1", "8", "a", "a">>

HexVal(c) ==
    CASE c = "0" -> 0 [] c = "1" -> 1 [] c = "2" -> 2 [] c = "3" -> 3
      [] c = "4" -> 4 [] c = "5" -> 5 [] c = "6" -> 6 [] c = "7" -> 7
      [] c = "8" -> 8 [] c = "9" -> 9 [] c = "a" -> 10 [] c = "b" -> 11
      [] c = "c" -> 12 [] c = "d" -> 13 [] c = "e" -> 14 [] c = "f" -> 15

\* uuid.UUID(hex): the 128-bit integer int(hex, 16), kept as its 32 hexadecimal
\* digits, most significant first; no version argument, so no bit is changed.
UuidOfHex(hex) == [i \in 1..Len(hex) |-> HexVal(hex[i])]

uuid_from_string(string) == UuidOfHex(Md5HexDigest(string))

\* UUID.version reads bits 76-79 of the integer: the 13th hexadecimal digit.
UuidVersionField(u) == u[13]

\* UUID.variant reads bits 62-63 of the integer: the top two bits of the 17th
\* hexadecimal digit.
UuidVariantBits(u) == u[17] \div 4

CallUuidFromString(c) ==
    /\ c.op = "uuid_from_string"
    /\ call' = c
    /\ result' = [k |-> "return", value |-> uuid_from_string(c.string)]
    /\ UNCHANGED <<loggerLevel, dirs, files>>

(***************************************************************************)
(* check_if_number                                                         *)
(***************************************************************************)
Digits == {"0", "1", "2", "3", "4", "5", "6", "7", "8", "9"}

PyStr(s) == [k |-> "str", v |-> s]

\* A float is kept as <<m, e>>, standing for m / 10^e, with e as small as can be.
RECURSIVE FloatNorm(_, _)
FloatNorm(m, e) ==
    IF e > 0 /\ m % 10 = 0 THEN FloatNorm(m \div 10, e - 1) ELSE <<m, e>>

PyFloat(m, e) == [k |-> "float", v |-> FloatNorm(m, e)]

AllDigits(s) == \A i \in 1..Len(s) : s[i] \in Digits

RECURSIVE DigitsValue(_)
DigitsValue(s) ==
    IF s = <<>> THEN 0 ELSE 10 * DigitsValue(Front(s)) + HexVal(Last(s))

HasSign(s) == s # <<>> /\ Head(s) \in {"-", "+"}

Unsigned(s) == IF HasSign(s) THEN Tail(s) ELSE s

Signed(s, n) == IF s # <<>> /\ Head(s) = "-" THEN 0 - n ELSE n

\* int(value) does not raise ValueError: an optional sign and decimal digits
\* (the model's tokens hold no underscore between digits and no whitespace).
IntParses(value) == Unsigned(value) # <<>> /\ AllDigits(Unsigned(value))

\* float(value) does not raise ValueError: an optional sign, then digits with
\* at most one dot and at least one digit (the model's tokens hold no
\* exponent, "inf" or "nan").
FloatParses(value) ==
    LET u == Unsigned(value)
        f == SplitOn(u, ".")
    IN  /\ Len(f) \in {1, 2}
        /\ \A i \in 1..Len(f) : AllDigits(f[i])
        /\ \E i \in 1..Len(f) : f[i] # <<>>

FloatOf(value) ==
    LET f == SplitOn(Unsigned(value), ".")
        frac == IF Len(f) = 2 THEN f[2] ELSE <<>>
    IN  PyFloat(Signed(value, DigitsValue(f[1] \o frac)), Len(frac))

check_if_number(value) ==
    IF IntParses(value) THEN PyInt(Signed(value, DigitsValue(Unsigned(value))))
    ELSE IF FloatParses(value) THEN FloatOf(value)
    ELSE PyStr(value)

CallCheckIfNumber(c) ==
    /\ c.op = "check_if_number"
    /\ call' = c
    /\ result' = [k |-> "return", value |-> check_if_number(c.value)]
    /\ UNCHANGED <<loggerLevel, dirs, files>>

(***************************************************************************)
(* read_parameters_txt                                                     *)
(***************************************************************************)
Whitespace == {" ", "\t"}

\* Mutant: only the space separates columns, as line.split(" ") without the
\* empty fields; a tab stays in its column.
RECURSIVE SplitWhitespace_SpacesOnly(_)
SplitWhitespace_SpacesOnly(line) ==
    IF line = <<>> THEN <<>>
    ELSE IF Head(line) = " " THEN SplitWhitespace_SpacesOnly(Tail(line))
    ELSE LET n == IF \A i \in 1..Len(line) : line[i] # " "
                  THEN Len(line)
                  ELSE (CHOOSE i \in 1..Len(line) :
                            /\ line[i] = " "
                            /\ \A j \in 1..(i - 1) : line[j] # " ") - 1
         IN  <<SubSeq(line, 1, n)>> \o SplitWhitespace_SpacesOnly(Drop(line, n))

\* str.split(): the maximal runs of non-whitespace characters.
RECURSIVE SplitWhitespace(_)
SplitWhitespace(line) ==
    IF line = <<>> THEN <<>>
    ELSE IF Head(line) \in Whitespace THEN SplitWhitespace(Tail(line))
    ELSE LET n == IF \A i \in 1..Len(line) : line[i] \notin Whitespace
                  THEN Len(line)
                  ELSE (CHOOSE i \in 1..Len(line) :
                            /\ line[i] \in Whitespace
                            /\ \A j \in 1..(i - 1) : line[j] \notin Whitespace) - 1
         IN  <<SubSeq(line, 1, n)>> \o SplitWhitespace(Drop(line, n))

\* key in param
HasKey(entries, key) == \E i \in 1..Len(entries) : entries[i].key = key

\* param[key]
DictGet(entries, key) ==
    entries[CHOOSE i \in 1..Len(entries) : entries[i].key = key].val

\* param[key] = val on an OrderedDict: a new key goes last, a key that is
\* there keeps its place.
DictSet(entries, key, val) ==
    IF HasKey(entries, key)
    THEN [i \in 1..Len(entries) |->
              IF entries[i].key = key THEN Entry(key, val) ELSE entries[i]]
    ELSE Append(entries, Entry(key, val))

\* Lines 264-274: one turn of the loop; param comes in and goes out as the
\* entries of the OrderedDict.
ReadLine(param, line) ==
    LET items == SplitOn(line, ":")
    IN  IF Len(items) = 2
        THEN [k |-> "ok", param |-> DictSet(param, items[1], check_if_number(items[2]))]
        ELSE IF Len(items) = 3
        THEN LET p1 == IF ~HasKey(param, items[1])
                       THEN DictSet(param, items[1], PyDict(<<>>)) ELSE param
                 group == DictGet(p1, items[1])
             IN  IF group.k # "dict"
                 THEN [k |-> "raise", exc |-> "TypeError"]
                 ELSE [k |-> "ok",
                       param |-> DictSet(p1, items[1],
                                    PyDict(DictSet(group.v, items[2],
                                                   check_if_number(items[3]))))]
        ELSE [k |-> "raise", exc |-> "RuntimeError"]

RECURSIVE ReadLines(_, _)
ReadLines(param, buffer) ==
    IF buffer = <<>> THEN [k |-> "return", value |-> PyDict(param)]
    ELSE LET r == ReadLine(param, Head(buffer))
         IN  IF r.k = "ok" THEN ReadLines(r.param, Tail(buffer))
             ELSE [k |-> "raise", exc |-> r.exc]

\* Line 259: ":".join(line.split())
JoinedLine(line) == JoinWith(SplitWhitespace(line), <<":">>)

\* The value read_parameters_txt returns, or the exception it raises, on a file
\* whose lines (stream.read().splitlines()) are lines.
read_parameters_txt(lines) ==
    ReadLines(<<>>, [i \in 1..Len(lines) |-> JoinedLine(lines[i])])

CallReadParametersTxt(c) ==
    /\ c.op = "read_parameters_txt"
    /\ call' = c
    /\ result' = read_parameters_txt(files.params)
    /\ UNCHANGED <<loggerLevel, dirs, files>>

(***************************************************************************)
(* The calls of the model: arguments drawn from bounded sets.              *)
(***************************************************************************)
Pending == [k |-> "pending"]

NoCall == [op |-> "none"]

NoMemo == [k |-> "nomemo"]

Volantis == <<"V", "o", "l", "a", "n", "t", "i", "s">>
WhatDescr == <<"w", "h", "a", "t", " ", "D", "e", "s", "c", "r">>
ShareResults == <<".", ".", "/", ".", ".", "/", "s", "h", "a", "r", "e", "/", "r", "e", "s", "u", "l", "t", "s", "/">>
Realization0 == <<"r", "e", "a", "l", "i", "z", "a", "t", "i", "o", "n", "-", "0">>
Iter0 == <<"i", "t", "e", "r", "-", "0">>
Segy == <<".", "s", "e", "g", "y">>
TestCube == <<"t", "e", "s", "t", "c", "u", "b", "e">>
VolantisWhatDescr == <<"v", "o", "l", "a", "n", "t", "i", "s", "-", "-", "w", "h", "a", "t", "_", "d", "e", "s", "c", "r">>

NameAlphabet == {"a", "B", ".", " "}

CFDefaults ==
    [op |-> "construct_filename", name |-> Volantis, pretagname |-> None,
     tagname |-> None, t1 |-> None, t2 |-> None, subfolder |-> None, fmu |-> 1,
     outroot |-> ShareResults, loc |-> "surface", verbosity |-> "WARNING"]

\* Calls that vary the parts of the stem.
CFStemCalls ==
    {[CFDefaults EXCEPT !.name = n, !.pretagname = p, !.tagname = g,
                        !.t1 = a, !.t2 = b, !.fmu = f] :
        n \in StrUpTo(NameAlphabet, MaxNameLen) \cup {Volantis},
        p \in {None, <<>>, <<"P", ".">>},
        g \in {None, <<>>, WhatDescr, <<"T", ".", "p">>},
        a \in {None, <<>>, <<"2", "0", ".", "T">>},
        b \in {None, <<>>, <<"1", "9", " ", "D">>},
        f \in {1, 2}}

\* Calls that vary what the destination is made of.
CFDestCalls ==
    {[CFDefaults EXCEPT !.outroot = o, !.loc = l, !.subfolder = s,
                        !.fmu = f, !.verbosity = v] :
        o \in {ShareResults, <<"/", "t", "m", "p", "/", "x">>, <<"o", "u", "t">>},
        l \in {"surface", "grid", "table", "polygons", "cube", "points", ""},
        s \in {None, <<>>, <<"s", "u", "b">>, <<"s", "/", "t">>},
        f \in {1, 2},
        v \in Verbosities}

CFCalls == CFStemCalls \cup CFDestCalls

\* The run folder of the test case: <case>/realization-0/iter-0/rms/model.
Pwd ==
    [abs |-> TRUE,
     parts |-> <<<<"c">>, Realization0, Iter0, <<"r", "m", "s">>, <<"m", "o", "d", "e", "l">>>>]

\* The directories of the run folder, and those of share/results beside rms.
PwdDirs == {SubSeq(Pwd.parts, 1, n) : n \in 1..Len(Pwd.parts)}

ShareDirs ==
    {SubSeq(Pwd.parts, 1, 3) \o <<<<"s", "h", "a", "r", "e">>>>,
     SubSeq(Pwd.parts, 1, 3) \o <<<<"s", "h", "a", "r", "e">>, <<"r", "e", "s", "u", "l", "t", "s">>>>}

CubesDirs ==
    {SubSeq(Pwd.parts, 1, 3) \o <<<<"s", "h", "a", "r", "e">>, <<"r", "e", "s", "u", "l", "t", "s">>, <<"c", "u", "b", "e", "s">>>>,
     Pwd.parts \o <<<<"c", "u", "b", "e", "s">>>>}

FileDests ==
    {PathOf(<<".", ".", "/", ".", ".", "/", "s", "h", "a", "r", "e", "/", "r", "e", "s", "u", "l", "t", "s", "/", "c", "u", "b", "e", "s">>), PathOf(<<"c", "u", "b", "e", "s">>),
     PathOf(<<"/", "t", "m", "p", "/", "c", "u", "b", "e", "s">>), PathOf(<<"x", "/", ".", ".", "/", "c", "u", "b", "e", "s">>)}

FileNameAlphabet == {"a", "B", "."}

FileNames ==
    (StrUpTo(FileNameAlphabet, MaxNameLen) \ {<<>>, <<".">>, <<".", ".">>})
        \cup {TestCube, VolantisWhatDescr, <<"a", ".", "B">>}

DataIOs(verbosities) ==
    {[verbosity |-> v, pwd |-> Pwd, createfolder |-> cf, realfolder |-> r,
      iterfolder |-> i] :
        v \in verbosities, cf \in BOOLEAN,
        r \in {None, Realization0}, i \in {None, Iter0}}

VPCalls ==
    {[op |-> "verify_path", dataio |-> d, filedest |-> fd, filename |-> fn,
      ext |-> e, dryrun |-> dr] :
        d \in DataIOs({"INFO"}), fd \in FileDests, fn \in FileNames,
        e \in {Segy, <<>>, <<".", "g", "r", "i">>}, dr \in BOOLEAN}

VPDirs == {PwdDirs, PwdDirs \cup ShareDirs, PwdDirs \cup ShareDirs \cup CubesDirs}

(***************************************************************************)
(* Specifications.  A helper is applied to a call drawn in the initial     *)
(* state (SpecFilename, SpecPath, ...), or the helpers are called one      *)
(* after another in any order (Spec).                                      *)
(***************************************************************************)
InitWith(calls, dirsets, paramfiles) ==
    /\ loggerLevel = 0
    /\ dirs \in dirsets
    /\ files \in [params : paramfiles, out : {{}}]
    /\ call \in calls
    /\ result = IF call = NoCall THEN [k |-> "none"] ELSE Pending
    /\ memo = NoMemo

ApplyConstructFilename ==
    result = Pending /\ CallConstructFilename(call) /\ UNCHANGED memo

InitFilename == InitWith(CFCalls, {PwdDirs}, {<<>>})

SpecFilename == InitFilename /\ [][ApplyConstructFilename]_vars

ApplyVerifyPath ==
    result = Pending /\ CallVerifyPath(call) /\ UNCHANGED memo

InitPath == InitWith(VPCalls, VPDirs, {<<>>})

SpecPath == InitPath /\ [][ApplyVerifyPath]_vars

(***************************************************************************)
(* More bounds, and the calls of the other helpers.                        *)
(***************************************************************************)
MaxDepth == 4

MaxLines == 2

MaxTokLen == 2

UuidStrLen == 3

\* The values nested at most depth deep: None, a number, and dicts, lists and
\* tuples of no or one nested value.
RECURSIVE PyValues(_)
PyValues(depth) ==
    IF depth = 0 THEN {PyNone, PyInt(1)}
    ELSE LET sub == PyValues(depth - 1)
         IN  sub \cup {PyDict(<<>>), PySeq("list", <<>>), PySeq("tuple", <<>>)}
                 \cup {PyDict(<<Entry("a", x)>>) : x \in sub}
                 \cup {PySeq("list", <<x>>) : x \in sub}
                 \cup {PySeq("tuple", <<x>>) : x \in sub}

\* The dicts nested at most depth deep, with a second key at the top.
DictsOfDepth(depth) ==
    {PyDict(<<>>)} \cup
    {PyDict(<<Entry("a", x)>> \o more) :
        x \in PyValues(depth - 1),
        more \in {<<>>, <<Entry("b", PyNone)>>, <<Entry("b", PyInt(1))>>}}

DNCalls == {[op |-> "drop_nones", dinput |-> d] : d \in DictsOfDepth(MaxDepth)}

MetaYml == <<".", "a", ".", "s", "e", "g", "y", ".", "y", "m", "l">>

EMCalls ==
    {[op |-> "export_metadata_file", yfile |-> MetaYml, metadata |-> m,
      savefmt |-> f, verbosity |-> "INFO"] :
        m \in {PyNone} \cup DictsOfDepth(MaxDepth - 2), f \in {"yaml", "json"}}

UUCalls ==
    {[op |-> "uuid_from_string", string |-> s] :
        s \in StrUpTo({"a", "b", "c", "d"}, UuidStrLen)}

\* The layout of a line: what stands before, between and after its columns.
CompactLayout == [lead |-> <<>>, sep |-> <<" ">>, trail |-> <<>>]

JustifiedLayout == [lead |-> <<" ", " ", "\t">>, sep |-> <<"\t", " ">>, trail |-> <<" ">>]

Layouts ==
    {CompactLayout, JustifiedLayout,
     [lead |-> <<"\t">>, sep |-> <<"\t">>, trail |-> <<>>],
     [lead |-> <<" ">>, sep |-> <<" ", " ", " ">>, trail |-> <<"\t">>]}

LineText(tokens, layout) == layout.lead \o JoinWith(tokens, layout.sep) \o layout.trail

\* Lines of a key (plain, or GROUP:KEY) and a value, and the lines that are
\* not of that form: blank, a lone key, two colons, more columns.
TokenLines ==
    {<<key, value>> :
        key \in {<<"K">>, <<"G">>, <<"G", ":", "K">>, <<"G", ":", "J">>, <<"K", ":">>}, value \in {<<"1">>, <<"x">>}}
    \cup {<<>>, <<<<"K">>>>, <<<<"G", ":", "K", ":", "J">>, <<"1">>>>, <<<<"G", ":", "K">>, <<"1">>, <<"x">>>>, <<<<"K">>, <<"1">>, <<"x">>>>}

FileLines == {LineText(tl, lay) : tl \in TokenLines, lay \in {CompactLayout, JustifiedLayout}}

RECURSIVE SeqsUpTo(_, _)
SeqsUpTo(S, n) ==
    IF n = 0 THEN {<<>>}
    ELSE LET shorter == SeqsUpTo(S, n - 1)
         IN  shorter \cup {Append(s, x) : s \in shorter, x \in S}

\* The example files of the docstring, compact and justified.
DocCompactFile ==
    <<<<"S", "E", "N", "S", "N", "A", "M", "E", " ", "r", "m", "s", "_", "s", "e", "e", "d">>,
      <<"S", "E", "N", "S", "C", "A", "S", "E", " ", "p", "1", "0", "_", "p", "9", "0">>,
      <<"R", "M", "S", "_", "S", "E", "E", "D", " ", "1", "0", "0", "0">>,
      <<"K", "V", "K", "H", "_", "C", "H", "A", "N", "N", "E", "L", " ", "0", ".", "6">>,
      <<"K", "V", "K", "H", "_", "C", "R", "E", "V", "A", "S", "S", "E", " ", "0", ".", "3">>,
      <<"G", "L", "O", "B", "V", "A", "R", ":", "V", "O", "L", "O", "N", "_", "F", "L", "O", "O", "D", "P", "L", "A", "I", "N", "_", "V", "O", "L", "F", "R", "A", "C", " ", "0", ".", "2", "5", "6", "3", "5", "5">>,
      <<"G", "L", "O", "B", "V", "A", "R", ":", "V", "O", "L", "O", "N", "_", "P", "E", "R", "M", "H", "_", "C", "H", "A", "N", "N", "E", "L", " ", "1", "1", "0", "0">>,
      <<"G", "L", "O", "B", "V", "A", "R", ":", "V", "O", "L", "O", "N", "_", "P", "O", "R", "O", "_", "C", "H", "A", "N", "N", "E", "L", " ", "0", ".", "2">>,
      <<"L", "O", "G", "1", "0", "_", "G", "L", "O", "B", "V", "A", "R", ":", "F", "A", "U", "L", "T", "_", "S", "E", "A", "L", "_", "S", "C", "A", "L", "I", "N", "G", " ", "0", ".", "6", "8", "5", "5", "1", "6">>,
      <<"L", "O", "G", "1", "0", "_", "M", "U", "L", "T", "R", "E", "G", "T", ":", "M", "U", "L", "T", "_", "T", "H", "E", "R", "Y", "S", "_", "V", "O", "L", "O", "N", " ", "-", "3", ".", "2", "1", "3", "6", "5">>,
      <<"L", "O", "G", "1", "0", "_", "M", "U", "L", "T", "R", "E", "G", "T", ":", "M", "U", "L", "T", "_", "V", "A", "L", "Y", "S", "A", "R", "_", "T", "H", "E", "R", "Y", "S", " ", "-", "3", ".", "2", "5", "8", "2">>>>

DocJustifiedFile ==
    <<<<" ", " ", " ", " ", " ", " ", " ", " ", " ", " ", " ", " ", " ", " ", " ", " ", " ", " ", " ", " ", " ", " ", "S", "E", "N", "S", "N", "A", "M", "E", " ", " ", " ", " ", " ", "r", "m", "s", "_", "s", "e", "e", "d">>,
      <<" ", " ", " ", " ", " ", " ", " ", " ", " ", " ", " ", " ", " ", " ", " ", " ", " ", " ", " ", " ", " ", " ", "S", "E", "N", "S", "C", "A", "S", "E", " ", " ", " ", " ", " ", "p", "1", "0", "_", "p", "9", "0">>,
      <<" ", " ", " ", " ", " ", " ", " ", " ", " ", " ", " ", " ", " ", " ", " ", " ", " ", " ", " ", " ", " ", " ", "R", "M", "S", "_", "S", "E", "E", "D", " ", " ", " ", " ", " ", "1", "0", "0", "0">>,
      <<" ", " ", " ", " ", " ", " ", " ", " ", " ", " ", " ", " ", " ", " ", " ", " ", " ", " ", "K", "V", "K", "H", "_", "C", "H", "A", "N", "N", "E", "L", " ", " ", " ", " ", " ", "0", ".", "6">>,
      <<" ", " ", " ", " ", "G", "L", "O", "B", "V", "A", "R", ":", "V", "O", "L", "O", "N", "_", "P", "E", "R", "M", "H", "_", "C", "H", "A", "N", "N", "E", "L", " ", " ", " ", " ", "1", "1", "0", "0">>,
      <<"L", "O", "G", "1", "0", "_", "G", "L", "O", "B", "V", "A", "R", ":", "F", "A", "U", "L", "T", "_", "S", "E", "A", "L", "_", "S", "C", "A", "L", "I", "N", "G", " ", " ", " ", "0", ".", "6", "8", "5", "5", "1", "6">>,
      <<"L", "O", "G", "1", "0", "_", "M", "U", "L", "T", "R", "E", "G", "T", ":", "M", "U", "L", "T", "_", "T", "H", "E", "R", "Y", "S", "_", "V", "O", "L", "O", "N", " ", " ", " ", "-", "3", ".", "2", "1", "3", "6", "5">>>>

ValueTokens ==
    (StrUpTo({"1", "-", "."}, MaxTokLen) \ {<<>>})
    \cup {<<"1", "0", "0", "0">>, <<"0", ".", "6">>, <<"-", "3", ".", "2", "1", "3", "6", "5">>, <<"+", "7">>, <<"0", ".", "5", "0">>, <<"r", "m", "s", "_", "s", "e", "e", "d">>, <<"p", "1", "0", "_", "p", "9", "0">>}

ParamFiles ==
    SeqsUpTo(FileLines, MaxLines)
    \cup {<<LineText(<<<<"K">>, v>>, lay)>> : v \in ValueTokens, lay \in Layouts}
    \cup {DocCompactFile, DocJustifiedFile}

RPCalls == {[op |-> "read_parameters_txt", pfile |-> "parameters.txt"]}

CINCalls == {[op |-> "check_if_number", value |-> v] : v \in ValueTokens}

ApplyDropNones == result = Pending /\ CallDropNones(call) /\ UNCHANGED memo

ApplyExportMetadataFile ==
    result = Pending /\ CallExportMetadataFile(call) /\ UNCHANGED memo

InitMetadata == InitWith(DNCalls \cup EMCalls, {PwdDirs}, {<<>>})

NextMetadata == ApplyDropNones \/ ApplyExportMetadataFile

SpecMetadata == InitMetadata /\ [][NextMetadata]_vars

ApplyUuidFromString == result = Pending /\ CallUuidFromString(call) /\ UNCHANGED memo

InitUuid == InitWith(UUCalls, {PwdDirs}, {<<>>})

SpecUuid == InitUuid /\ [][ApplyUuidFromString]_vars

ApplyReadParametersTxt ==
    result = Pending /\ CallReadParametersTxt(call) /\ UNCHANGED memo

ApplyCheckIfNumber == result = Pending /\ CallCheckIfNumber(call) /\ UNCHANGED memo

InitParameters ==
    \/ InitWith(RPCalls, {PwdDirs}, ParamFiles)
    \/ InitWith(CINCalls, {PwdDirs}, {<<>>})

NextParameters == ApplyReadParametersTxt \/ ApplyCheckIfNumber

SpecParameters == InitParameters /\ [][NextParameters]_vars


(***************************************************************************)
(* Spec: the helpers called one after another, in any order, each call     *)
(* with arguments of its own.  memo keeps one earlier call with what it    *)
(* met (the logger level, the directories, the files) and what it gave.    *)
(***************************************************************************)
MainCFCalls ==
    {[CFDefaults EXCEPT !.fmu = f, !.verbosity = v] :
        f \in {1, 2}, v \in {"DEBUG", "WARNING"}}

MainVPCalls ==
    {[op |-> "verify_path",
      dataio |-> [verbosity |-> "INFO", pwd |-> Pwd, createfolder |-> cf,
                  realfolder |-> Realization0, iterfolder |-> Iter0],
      filedest |-> PathOf(<<"c", "u", "b", "e", "s">>), filename |-> TestCube, ext |-> Segy,
      dryrun |-> dr] :
        cf \in BOOLEAN, dr \in BOOLEAN}

MainDNCalls == {[op |-> "drop_nones", dinput |-> PyDict(<<Entry("a", PyNone)>>)]}

MainEMCalls ==
    {[op |-> "export_metadata_file", yfile |-> MetaYml, metadata |-> m,
      savefmt |-> "yaml", verbosity |-> "INFO"] :
        m \in {PyNone, PyDict(<<Entry("a", PyInt(1))>>)}}

MainUUCalls == {[op |-> "uuid_from_string", string |-> <<"a">>]}

MainCINCalls == {[op |-> "check_if_number", value |-> <<"1">>]}

MainParamFiles ==
    {<<LineText(<<<<"K">>, <<"1">>>>, CompactLayout)>>,
     <<LineText(<<<<"G", ":", "K">>, <<"x">>>>, JustifiedLayout)>>}

Remember(c) ==
    \/ memo' = memo
    \/ /\ memo = NoMemo
       /\ memo' = [call |-> c, level |-> loggerLevel, dirs |-> dirs,
                   files |-> files, result |-> result']

Init == InitWith({NoCall}, {PwdDirs}, MainParamFiles)

ConstructFilename == \E c \in MainCFCalls : CallConstructFilename(c) /\ Remember(c)

VerifyPath == \E c \in MainVPCalls : CallVerifyPath(c) /\ Remember(c)

DropNones == \E c \in MainDNCalls : CallDropNones(c) /\ Remember(c)

ExportMetadataFile == \E c \in MainEMCalls : CallExportMetadataFile(c) /\ Remember(c)

UuidFromString == \E c \in MainUUCalls : CallUuidFromString(c) /\ Remember(c)

ReadParametersTxt == \E c \in RPCalls : CallReadParametersTxt(c) /\ Remember(c)

CheckIfNumber == \E c \in MainCINCalls : CallCheckIfNumber(c) /\ Remember(c)

Next ==
    \/ ConstructFilename
    \/ VerifyPath
    \/ DropNones
    \/ ExportMetadataFile
    \/ UuidFromString
    \/ ReadParametersTxt
    \/ CheckIfNumber

Spec == Init /\ [][Next]_vars

(***************************************************************************)
(* Claims about construct_filename (SpecFilename).                         *)
(***************************************************************************)
IsDone(op) == call.op = op /\ result # Pending

\* An optional part is given when it is neither None nor empty.
Given(x) == x # None /\ x # <<>>

\* A part as it shows in the stem: lowercased, '.' and ' ' replaced by '_'.
SanitizedPart(s) ==
    [i \in 1..Len(s) |-> IF s[i] \in {".", " "} THEN "_" ELSE LowerChar(s[i])]

DashDash == <<"-", "-">>

ExpectedStem(c) ==
    (IF Given(c.pretagname) THEN SanitizedPart(c.pretagname) \o DashDash ELSE <<>>)
    \o SanitizedPart(c.name)
    \o (IF Given(c.tagname) THEN DashDash \o SanitizedPart(c.tagname) ELSE <<>>)
    \o (IF Given(c.t1) /\ Given(c.t2)
        THEN DashDash \o SanitizedPart(c.t2) \o <<"_">> \o SanitizedPart(c.t1)
        ELSE IF Given(c.t1) THEN DashDash \o SanitizedPart(c.t1)
        ELSE <<>>)

\* C1: for fmu style 1 the stem is [pretagname--]name[--tagname] followed by
\* --t1 (only t1 given) or --t2_t1 (both given), nothing when t1 is absent,
\* every part lowercased with '.' and ' ' replaced by '_'; so the stem holds no
\* dot, no space and no uppercase letter, and 'Volantis' with tagname
\* 'what Descr' gives 'volantis--what_descr'.
C1_StemFormat ==
    (IsDone("construct_filename") /\ call.fmu = 1) =>
        /\ result.k = "return"
        /\ result.stem = ExpectedStem(call)
        /\ \A i \in 1..Len(result.stem) :
               result.stem[i] \notin {".", " "} \cup UpperChars
        /\ (/\ call.name = Volantis /\ call.tagname = WhatDescr
            /\ ~Given(call.pretagname) /\ ~Given(call.t1))
           => result.stem = VolantisWhatDescr

C1_Witness ==
    /\ IsDone("construct_filename") /\ call.fmu = 1
    /\ call.name = <<"B", " ">> /\ call.tagname = WhatDescr
    /\ Given(call.pretagname) /\ Given(call.t1) /\ Given(call.t2)
    /\ result.k = "return" /\ Len(result.stem) > Len(call.name)

\* The string of a destination: outroot without its trailing slash, the folder
\* of the loc, and the subfolder when one is given.
ExpectedDest(c) ==
    (IF Last(c.outroot) = "/" THEN Front(c.outroot) ELSE c.outroot)
    \o <<"/">>
    \o (CASE c.loc = "surface" -> <<"m", "a", "p", "s">>
          [] c.loc = "grid" -> <<"g", "r", "i", "d", "s">>
          [] c.loc = "table" -> <<"t", "a", "b", "l", "e", "s">>
          [] c.loc = "polygons" -> <<"p", "o", "l", "y", "g", "o", "n", "s">>
          [] c.loc = "cube" -> <<"c", "u", "b", "e", "s">>
          [] OTHER -> <<"o", "t", "h", "e", "r">>)
    \o (IF Given(c.subfolder) THEN <<"/">> \o c.subfolder ELSE <<>>)

\* C7: construct_filename returns a stem and a destination for every
\* combination of arguments, every fmu style included; the destination is
\* outroot/maps, /grids, /tables, /polygons, /cubes by loc, /other for any
\* other loc, with a non-empty subfolder appended.
C7_ReturnsForEveryFmu ==
    IsDone("construct_filename") =>
        /\ result.k = "return"
        /\ PathStr(result.dest) = ExpectedDest(call)

(***************************************************************************)
(* Claims about verify_path (SpecPath).                                    *)
(***************************************************************************)
\* <pwd>/<filedest>, as a list of parts.
FolderParts(c) ==
    IF c.filedest.abs THEN c.filedest.parts
    ELSE c.dataio.pwd.parts \o c.filedest.parts

\* C2: the data path is <pwd>/<filedest>/<lowercased filename><ext>, and the
\* metadata path lies in the same folder and is named '.' + <lowercased
\* filename> + <ext> + '.yml'.
C2_MetaNameFromDataName ==
    (IsDone("verify_path") /\ result.k = "return") =>
        /\ result.path.parts = Append(FolderParts(call), Lower(call.filename) \o call.ext)
        /\ Front(result.metapath.parts) = Normal(FolderParts(call))
        /\ Last(result.metapath.parts) =
               <<".">> \o Lower(call.filename) \o call.ext \o YmlExt

BothFolders(c) == c.dataio.realfolder # None /\ c.dataio.iterfolder # None

RelPathTail(c) ==
    Replace(PathStr(c.filedest), <<".", ".", "/">>, <<>>)
    \o <<"/">> \o Lower(c.filename) \o c.ext

RelPathPrefix(c) == c.dataio.realfolder \o <<"/">> \o c.dataio.iterfolder \o <<"/">>

\* C3 as stated: the relative path is filedest with every '../' removed, then
\* '/' + <lowercased filename> + <ext>, prefixed with
\* '<realfolder>/<iterfolder>/' exactly when both folders are not None.
C3_RelPathAsStated ==
    (IsDone("verify_path") /\ result.k = "return") =>
        result.relpath =
            (IF BothFolders(call) THEN RelPathPrefix(call) ELSE <<>>) \o RelPathTail(call)

\* C3 as amended: the prefix is added exactly when both folders are not None
\* and filedest is a relative path; for an absolute filedest the result is
\* filedest + '/' + <lowercased filename> + <ext> whatever the folders are.
\* '../../share/results/cubes' in realization-0/iter-0 gives
\* 'realization-0/iter-0/share/results/cubes/volantis--what_descr.segy'.
C3_RelPath ==
    (IsDone("verify_path") /\ result.k = "return") =>
        /\ result.relpath =
               (IF BothFolders(call) /\ ~call.filedest.abs
                THEN RelPathPrefix(call) ELSE <<>>) \o RelPathTail(call)
        /\ (/\ call.filedest = PathOf(<<".", ".", "/", ".", ".", "/", "s", "h", "a", "r", "e", "/", "r", "e", "s", "u", "l", "t", "s", "/", "c", "u", "b", "e", "s">>)
            /\ call.dataio.realfolder = Realization0 /\ call.dataio.iterfolder = Iter0
            /\ call.filename = VolantisWhatDescr /\ call.ext = Segy)
           => result.relpath =
                  <<"r", "e", "a", "l", "i", "z", "a", "t", "i", "o", "n", "-", "0", "/", "i", "t", "e", "r", "-", "0", "/", "s", "h", "a", "r", "e", "/", "r", "e", "s", "u", "l", "t", "s", "/", "c", "u", "b", "e", "s", "/", "v", "o", "l", "a", "n", "t", "i", "s", "-", "-", "w", "h", "a", "t", "_", "d", "e", "s", "c", "r", ".", "s", "e", "g", "y">>

C3_Witness ==
    /\ IsDone("verify_path") /\ result.k = "return"
    /\ call.filedest = PathOf(<<".", ".", "/", ".", ".", "/", "s", "h", "a", "r", "e", "/", "r", "e", "s", "u", "l", "t", "s", "/", "c", "u", "b", "e", "s">>)
    /\ BothFolders(call)
    /\ call.filename = VolantisWhatDescr /\ call.ext = Segy
    /\ StartsWith(result.relpath, Realization0)

\* The parent folder of the data path exists in the directories d.
FolderExists(d, c) == Walkable(d, FolderParts(c))

\* C9: with dryrun=False, an existing parent folder means nothing is created; a
\* missing one is there (with its parents) when the call returns if
\* createfolder is true; if createfolder is false the call raises IOError,
\* returns no paths and creates nothing. With dryrun=True nothing is ever
\* created and IOError is never raised.
C9_FolderPolicy ==
    [][(call'.op = "verify_path" /\ result = Pending /\ result' # Pending) =>
          LET c == call'
              was == FolderExists(dirs, c)
          IN  /\ (~c.dryrun /\ was) => dirs' = dirs
              /\ (~c.dryrun /\ ~was /\ c.dataio.createfolder) =>
                     /\ result'.k = "return"
                     /\ FolderExists(dirs', c)
                     /\ dirs \subseteq dirs'
              /\ (~c.dryrun /\ ~was /\ ~c.dataio.createfolder) =>
                     /\ result' = [k |-> "raise", exc |-> "IOError"]
                     /\ dirs' = dirs
              /\ c.dryrun =>
                     /\ dirs' = dirs
                     /\ result'.k = "return"]_vars

C9_Witness ==
    /\ IsDone("verify_path") /\ result.k = "return"
    /\ ~call.dryrun /\ call.dataio.createfolder
    /\ call.filedest = PathOf(<<"/", "t", "m", "p", "/", "c", "u", "b", "e", "s">>)
    /\ <<<<"t", "m", "p">>, <<"c", "u", "b", "e", "s">>>> \in dirs

(***************************************************************************)
(* Claims about drop_nones and export_metadata_file (SpecMetadata).        *)
(***************************************************************************)
\* Some key of a dict in x, at any depth, maps to None.
RECURSIVE SomeKeyIsNone(_)
SomeKeyIsNone(x) ==
    IF x.k = "dict"
    THEN \E i \in 1..Len(x.v) : x.v[i].val = PyNone \/ SomeKeyIsNone(x.v[i].val)
    ELSE IF x.k \in {"list", "set", "tuple"}
    THEN \E i \in 1..Len(x.v) : SomeKeyIsNone(x.v[i])
    ELSE FALSE

\* C4: in the dict drop_nones returns no key of any dict at any nesting depth
\* (nested dicts, dicts inside lists, sets or tuples at any depth) maps to
\* None, and every top-level key whose value is not None is kept.
C4_NoNoneAtAnyDepth ==
    IsDone("drop_nones") =>
        /\ ~SomeKeyIsNone(result.value)
        /\ \A i \in 1..Len(call.dinput.v) :
               call.dinput.v[i].val # PyNone =>
                   \E j \in 1..Len(result.value.v) :
                       result.value.v[j].key = call.dinput.v[i].key

(***************************************************************************)
(* Claims about uuid_from_string (SpecUuid).                               *)
(***************************************************************************)
\* C6: the value uuid_from_string returns is a well-formed version-4 UUID
\* (version field 4, RFC 4122 variant bits 10), whatever the MD5 digest of the
\* string is, and the same string gives the same UUID.
C6_ValidUuid4 ==
    IsDone("uuid_from_string") =>
        /\ result.value = uuid_from_string(call.string)
        /\ UuidVersionField(result.value) = 4
        /\ UuidVariantBits(result.value) = 2

(***************************************************************************)
(* Claims about read_parameters_txt and check_if_number (SpecParameters).  *)
(***************************************************************************)
BlankChars == {" ", "\t"}

\* A line in the compact format: no whitespace at either end, one space for
\* every run of spaces and tabs.
RECURSIVE CompactFormat(_)
CompactFormat(line) ==
    IF line = <<>> THEN <<>>
    ELSE IF Head(line) \in BlankChars THEN CompactFormat(Tail(line))
    ELSE IF Len(line) = 1 THEN line
    ELSE IF line[2] \in BlankChars
         THEN LET rest == CompactFormat(Tail(line))
              IN  IF rest = <<>> THEN <<Head(line)>> ELSE <<Head(line), " ">> \o rest
    ELSE <<Head(line)>> \o CompactFormat(Tail(line))

\* The parts of a line: its columns joined with ':' and split on ':'.
PartsOf(line) == SplitOn(Replace(CompactFormat(line), <<" ">>, <<":">>), ":")

\* The first parts of the lines, each once, in the order they first occur.
RECURSIVE FirstParts(_)
FirstParts(lines) ==
    IF lines = <<>> THEN <<>>
    ELSE LET before == FirstParts(Front(lines))
             key == PartsOf(Last(lines))[1]
         IN  IF \E i \in 1..Len(before) : before[i] = key THEN before
             ELSE Append(before, key)

DocDict ==
    [k |-> "dict", v |-> <<
        [key |-> <<"S", "E", "N", "S", "N", "A", "M", "E">>,
         val |-> [k |-> "str", v |-> <<"r", "m", "s", "_", "s", "e", "e", "d">>]],
        [key |-> <<"S", "E", "N", "S", "C", "A", "S", "E">>,
         val |-> [k |-> "str", v |-> <<"p", "1", "0", "_", "p", "9", "0">>]],
        [key |-> <<"R", "M", "S", "_", "S", "E", "E", "D">>,
         val |-> [k |-> "int", v |-> 1000]],
        [key |-> <<"K", "V", "K", "H", "_", "C", "H", "A", "N", "N", "E", "L">>,
         val |-> [k |-> "float", v |-> <<6, 1>>]],
        [key |-> <<"K", "V", "K", "H", "_", "C", "R", "E", "V", "A", "S", "S", "E">>,
         val |-> [k |-> "float", v |-> <<3, 1>>]],
        [key |-> <<"G", "L", "O", "B", "V", "A", "R">>,
         val |-> [k |-> "dict", v |-> <<[key |-> <<"V", "O", "L", "O", "N", "_", "F", "L", "O", "O", "D", "P", "L", "A", "I", "N", "_", "V", "O", "L", "F", "R", "A", "C">>, val |-> [k |-> "float", v |-> <<256355, 6>>]],
            [key |-> <<"V", "O", "L", "O", "N", "_", "P", "E", "R", "M", "H", "_", "C", "H", "A", "N", "N", "E", "L">>, val |-> [k |-> "int", v |-> 1100]],
            [key |-> <<"V", "O", "L", "O", "N", "_", "P", "O", "R", "O", "_", "C", "H", "A", "N", "N", "E", "L">>, val |-> [k |-> "float", v |-> <<2, 1>>]]>>]],
        [key |-> <<"L", "O", "G", "1", "0", "_", "G", "L", "O", "B", "V", "A", "R">>,
         val |-> [k |-> "dict", v |-> <<[key |-> <<"F", "A", "U", "L", "T", "_", "S", "E", "A", "L", "_", "S", "C", "A", "L", "I", "N", "G">>, val |-> [k |-> "float", v |-> <<685516, 6>>]]>>]],
        [key |-> <<"L", "O", "G", "1", "0", "_", "M", "U", "L", "T", "R", "E", "G", "T">>,
         val |-> [k |-> "dict", v |-> <<[key |-> <<"M", "U", "L", "T", "_", "T", "H", "E", "R", "Y", "S", "_", "V", "O", "L", "O", "N">>, val |-> [k |-> "float", v |-> <<-321365, 5>>]],
            [key |-> <<"M", "U", "L", "T", "_", "V", "A", "L", "Y", "S", "A", "R", "_", "T", "H", "E", "R", "Y", "S">>, val |-> [k |-> "float", v |-> <<-32582, 4>>]]>>]]>>]

\* C5: 'KEY VALUE' is parsed into param[KEY] = VALUE and 'GROUP:KEY VALUE'
\* into param[GROUP][KEY] = VALUE, VALUE an int when it reads as one, else a
\* float when it reads as one, else the string; and the result does not depend
\* on layout: the lines with leading whitespace and any run of spaces or tabs
\* between the columns parse to what the compact format parses to, key order
\* included.
C5_LayoutIndependent ==
    /\ IsDone("read_parameters_txt") =>
          LET lines == files.params
              n == Len(lines)
              P(i) == PartsOf(lines[i])
          IN  /\ result = read_parameters_txt([i \in 1..n |-> CompactFormat(lines[i])])
              /\ result.k = "return" =>
                    /\ [i \in 1..Len(result.value.v) |-> result.value.v[i].key]
                           = FirstParts(lines)
                    /\ \A i \in 1..n :
                          /\ (/\ Len(P(i)) = 2
                              /\ \A j \in (i + 1)..n : P(j)[1] # P(i)[1])
                             => DictGet(result.value.v, P(i)[1]) = check_if_number(P(i)[2])
                          /\ (/\ Len(P(i)) = 3
                              /\ \A j \in (i + 1)..n :
                                     ~(/\ P(j)[1] = P(i)[1]
                                       /\ (Len(P(j)) = 2 \/ P(j)[2] = P(i)[2])))
                             => LET group == DictGet(result.value.v, P(i)[1])
                                IN  /\ group.k = "dict"
                                    /\ DictGet(group.v, P(i)[2]) = check_if_number(P(i)[3])
              /\ lines = DocCompactFile => result = [k |-> "return", value |-> DocDict]
    /\ IsDone("check_if_number") =>
          /\ call.value = <<"1", "0", "0", "0">> => result.value = PyInt(1000)
          /\ call.value = <<"-", "1">> => result.value = PyInt(0 - 1)
          /\ call.value = <<"0", ".", "6">> => result.value = [k |-> "float", v |-> <<6, 1>>]
          /\ call.value = <<"0", ".", "5", "0">> => result.value = [k |-> "float", v |-> <<5, 1>>]
          /\ call.value = <<"r", "m", "s", "_", "s", "e", "e", "d">> => result.value = PyStr(<<"r", "m", "s", "_", "s", "e", "e", "d">>)
          /\ call.value = <<"1", "-">> => result.value = PyStr(<<"1", "-">>)

C5_Witness ==
    /\ IsDone("read_parameters_txt")
    /\ files.params = <<LineText(<<<<"G", ":", "K">>, <<"1">>>>, JustifiedLayout),
                        LineText(<<<<"K">>, <<"x">>>>, CompactLayout)>>
    /\ result =
           [k |-> "return",
            value |-> PyDict(<<Entry(<<"G">>, PyDict(<<Entry(<<"K">>, PyInt(1))>>)),
                               Entry(<<"K">>, PyStr(<<"x">>))>>)]

\* C10: read_parameters_txt returns a dict or raises RuntimeError: a line that
\* does not have exactly 2 or 3 parts raises RuntimeError, and a file whose
\* lines all have 2 or 3 parts is parsed without any error, also when a name
\* is both a plain key and a group prefix, in either order.
C10_DictOrRuntimeError ==
    IsDone("read_parameters_txt") =>
        IF \A i \in 1..Len(files.params) : Len(PartsOf(files.params[i])) \in {2, 3}
        THEN result.k = "return"
        ELSE result = [k |-> "raise", exc |-> "RuntimeError"]

(***************************************************************************)
(* Claims about the helpers called one after another (Spec).               *)
(***************************************************************************)
SetsLevel == {"construct_filename", "verify_path", "export_metadata_file"}

VerbosityOf(c) == IF c.op = "verify_path" THEN c.dataio.verbosity ELSE c.verbosity

\* C8: what a call returns or raises depends only on its arguments and on the
\* files and folders it meets, never on the calls made before; and all a call
\* leaves behind in the module is the level of the logger, which after
\* construct_filename, verify_path or export_metadata_file is the verbosity
\* given to that call and which no other helper changes.
C8_NoSharedState ==
    [][/\ call'.op \in SetsLevel => loggerLevel' = LevelOf(VerbosityOf(call'))
       /\ call'.op \notin SetsLevel => loggerLevel' = loggerLevel
       /\ (/\ memo # NoMemo
           /\ memo.call = call' /\ memo.dirs = dirs /\ memo.files = files)
          => result' = memo.result]_vars

C8_Witness ==
    /\ memo # NoMemo
    /\ memo.call = call /\ call.op = "read_parameters_txt"
    /\ memo.dirs = dirs /\ memo.files = files
    /\ memo.level = 0 /\ loggerLevel # 0
    /\ memo.result = result

====
